---- MODULE Spec2Model ----
(***************************************************************************)
(* The StaticSitesClient installer action: main() reads the action inputs, *)
(* Install() resolves a release, derives a cache key, restores the install *)
(* directory from the cache or downloads and extracts the artifact, adds   *)
(* the install path to PATH and queries the tool version; main() then      *)
(* optionally runs the tool.  One run of the process is one behaviour.     *)
(*                                                                         *)
(* Strings are sequences of one-character strings, so that concatenation,  *)
(* the build-id regular expression, toLowerCase and trim are computed.     *)
(***************************************************************************)
EXTENDS Naturals, Sequences, FiniteSets

\* ------------------------------------------------------------ bounds

\* Longest metadata document (number of release entries) the fetch returns.
MaxDoc == 2

\* ------------------------------------------------------------ strings

Digits == {"0", "1", "2", "3", "4", "5", "6", "7", "8", "9"}

LineTerminators == {"\n", "\r"}

Whitespace == {" ", "\t", "\n", "\r"}

UpperCase == <<"A", "B", "C", "D", "E", "F", "G", "H", "I", "J", "K", "L", "M",
               "N", "O", "P", "Q", "R", "S", "T", "U", "V", "W", "X", "Y", "Z">>

LowerCase == <<"a", "b", "c", "d", "e", "f", "g", "h", "i", "j", "k", "l", "m",
               "n", "o", "p", "q", "r", "s", "t", "u", "v", "w", "x", "y", "z">>

\* String.prototype.toLowerCase, character by character.
LowerChar(c) ==
    IF \E i \in 1..Len(UpperCase) : UpperCase[i] = c
    THEN LowerCase[CHOOSE i \in 1..Len(UpperCase) : UpperCase[i] = c]
    ELSE c

ToLowerCase(s) == [i \in 1..Len(s) |-> LowerChar(s[i])]

RECURSIVE TrimStart(_)
TrimStart(s) ==
    IF s # <<>> /\ Head(s) \in Whitespace THEN TrimStart(Tail(s)) ELSE s

RECURSIVE TrimEnd(_)
TrimEnd(s) ==
    IF s # <<>> /\ s[Len(s)] \in Whitespace
    THEN TrimEnd(SubSeq(s, 1, Len(s) - 1))
    ELSE s

\* String.prototype.trim
Trim(s) == TrimEnd(TrimStart(s))

Dash == <<"-">>

\* String literals of the program and of the inputs the model draws.
TOOL_NAME == <<"S", "t", "a", "t", "i", "c", "S", "i", "t", "e", "s",
               "C", "l", "i", "e", "n", "t">>

TEMP_DIRECTORY == <<"/", "t", "m", "p">>

StrEmpty == <<>>
StrStable == <<"s", "t", "a", "b", "l", "e">>
StrStableCap == <<"S", "t", "a", "b", "l", "e">>
Str142 == <<"1", ".", "4", ".", "2">>
Str1d4d2 == <<"1", "-", "4", "-", "2">>
Str999 == <<"9", ".", "9", ".", "9">>
StrTrue == <<"t", "r", "u", "e">>
StrTrueCap == <<"T", "r", "u", "e">>
StrTRUE == <<"T", "R", "U", "E">>
StrOne == <<"1">>
StrFalse == <<"f", "a", "l", "s", "e">>
StrFalseCap == <<"F", "a", "l", "s", "e">>
StrFALSE == <<"F", "A", "L", "S", "E">>
StrYes == <<"y", "e", "s">>
StrLinux == <<"l", "i", "n", "u", "x">>
StrWin32 == <<"w", "i", "n", "3", "2">>
StrWin == <<"w", "i", "n">>
StrDarwin == <<"d", "a", "r", "w", "i", "n">>
StrOsx == <<"o", "s", "x">>
StrFreebsd == <<"f", "r", "e", "e", "b", "s", "d">>
StrX64 == <<"x", "6", "4">>
StrArm64 == <<"a", "r", "m", "6", "4">>
StrCache == <<"c", "a", "c", "h", "e">>
StrJammyNl == <<"j", "a", "m", "m", "y", "\n">>
StrFocalNl == <<"f", "o", "c", "a", "l", "\n">>
StrSwa == <<"s", "w", "a">>
StrSwaExe == <<"s", "w", "a", ".", "e", "x", "e">>

StrHttps == <<"h", "t", "t", "p", "s", ":", "/", "/">>
UrlLinux == StrHttps \o <<"h", "/", "l", "/">> \o StrSwa
UrlWin == StrHttps \o <<"h", "/", "w", "/">> \o StrSwaExe
UrlOsx == StrHttps \o <<"h", "/", "o", "/">> \o StrSwa
UrlSlash == StrHttps \o <<"h", "/", "l", "/">>
UrlBad == <<"h", "/">> \o StrSwa

\* An optional value: None is JavaScript's undefined, Some(x) a present x.
None == <<>>
Some(x) == <<x>>

\* ------------------------------------------------------------ input-helper

\* The inputs the workflow can set: getInputs reads 'version' and 'execute';
\* getBooleanInput then reads the input NAMED by its computed literal.
InputNames == {"version", "execute", "true", "false"}

\* core.getInput(name, {required: false}): the value, trimmed, '' when unset.
CoreGetInput(e, name) == Trim(e[name])

\* getBooleanInput's trueValue list.
TrueValue == {StrTrue, StrTrueCap, StrTRUE, StrOne}

\* getBooleanInput line 17: the literal 'true' or 'false'.
BooleanLiteral(e, name) ==
    IF CoreGetInput(e, name) \in TrueValue THEN "true" ELSE "false"

\* core.getBooleanInput(name): YAML 1.2 core schema booleans of the input
\* called name, a TypeError for anything else.
CoreGetBooleanInput(e, name) ==
    LET val == CoreGetInput(e, name) IN
    IF val \in {StrTrue, StrTrueCap, StrTRUE}
    THEN [threw |-> FALSE, value |-> TRUE]
    ELSE IF val \in {StrFalse, StrFalseCap, StrFALSE}
    THEN [threw |-> FALSE, value |-> FALSE]
    ELSE [threw |-> TRUE, value |-> FALSE]

\* getBooleanInput(name): passes the literal on AS THE NAME of the input
\* core.getBooleanInput reads.
GetBooleanInput(e, name) == CoreGetBooleanInput(e, BooleanLiteral(e, name))

\* getInputs line 7: the lower-cased 'version' input, 'stable' when empty.
InputVersion(e) ==
    LET v == ToLowerCase(CoreGetInput(e, "version")) IN
    IF v = StrEmpty THEN StrStable ELSE v

\* ------------------------------------------------------------ release resolver

\* /([\d])+.([\d])+.([\d]+)/.test(s): unanchored; each '.' is any character
\* but a line terminator.  A match exists iff one exists whose first and
\* last digit runs are single digits.
BuildIdRegexTest(s) ==
    \E i \in 1..Len(s), k \in 1..Len(s) :
        /\ i + 2 <= k
        /\ k + 2 <= Len(s)
        /\ s[i] \in Digits
        /\ s[i + 1] \notin LineTerminators
        /\ \A j \in (i + 2)..k : s[j] \in Digits
        /\ s[k + 1] \notin LineTerminators
        /\ s[k + 2] \in Digits

\* versionDefinition?.field : undefined for a null entry.
FieldOf(entry, field) ==
    IF entry.isNull THEN None
    ELSE IF field = "buildId" THEN Some(entry.buildId)
    ELSE Some(entry.version)

\* Mutant of Find: the first entry stands in when none matches.
FindOrFirst(doc, field, value) ==
    LET hits == {i \in 1..Len(doc) : FieldOf(doc[i], field) = Some(value)} IN
    IF hits = {} THEN Some(doc[1])
    ELSE Some(doc[CHOOSE i \in hits : \A j \in hits : i <= j])

\* Array.prototype.find: the first entry whose field equals value, else
\* undefined.
Find(doc, field, value) ==
    LET hits == {i \in 1..Len(doc) : FieldOf(doc[i], field) = Some(value)} IN
    IF hits = {} THEN None
    ELSE Some(doc[CHOOSE i \in hits : \A j \in hits : i <= j])

\* getReleaseMetadata lines 155-159: which field the lookup compares.
SelectField(releaseVersion) ==
    IF BuildIdRegexTest(releaseVersion) THEN "buildId" ELSE "version"

SelectRelease(doc, releaseVersion) ==
    Find(doc, SelectField(releaseVersion), releaseVersion)

\* Install line 24 and 26.
VersionMarker(entry) == entry.buildId \o Dash \o entry.version

\* path.sep of the running platform.
PathSep(plat) == IF plat = StrWin32 THEN "\\" ELSE "/"

\* core.toPlatformPath: every '/' and '\' becomes path.sep.
ToPlatformPath(plat, p) ==
    [i \in 1..Len(p) |-> IF p[i] \in {"/", "\\"} THEN PathSep(plat) ELSE p[i]]

\* path.join(a, b): joined with path.sep and normalised to it; an empty
\* segment adds nothing.
PathJoin(plat, a, b) ==
    IF b = StrEmpty THEN ToPlatformPath(plat, a)
    ELSE ToPlatformPath(plat, a \o <<"/">> \o b)

PathToInstall(plat, marker) ==
    PathJoin(plat, TEMP_DIRECTORY, TOOL_NAME \o Dash \o marker)

\* ------------------------------------------------------------ cache key

\* Mutant of CacheKey: the linux codename is left out of the key.
CacheKeyNoCodename(tool, version, plat, architecture, lsb) ==
    tool \o Dash \o version \o Dash \o plat \o Dash \o architecture
        \o Dash \o StrCache

\* getCacheKey: lsb is the trimmed lsb_release output, read on linux only.
CacheKey(tool, version, plat, architecture, lsb) ==
    LET base == tool \o Dash \o version \o Dash \o plat \o Dash \o architecture
        withLsb == IF plat = StrLinux THEN base \o Dash \o lsb ELSE base
    IN withLsb \o Dash \o StrCache

\* ------------------------------------------------------------ platform mapper

\* Mutant of SupportedArch: the architecture gate lets arm64 through.
SupportedArchAlsoArm(architecture) == architecture \in {StrX64, StrArm64}

\* getDownloadUrl line 128
SupportedArch(architecture) == architecture = StrX64

\* getDownloadUrl lines 133-142: the files-key platform, None when the
\* platform is unsupported.
MapPlatform(plat) ==
    IF plat = StrWin32 THEN Some(StrWin)
    ELSE IF plat = StrDarwin THEN Some(StrOsx)
    ELSE IF plat = StrLinux THEN Some(StrLinux)
    ELSE None

FilesKey(plat, architecture) == plat \o Dash \o architecture

\* new URL(s): a TypeError unless s is an absolute https URL with a host.
IsValidUrl(s) ==
    /\ Len(s) > Len(StrHttps)
    /\ SubSeq(s, 1, Len(StrHttps)) = StrHttps
    /\ s[Len(StrHttps) + 1] # "/"

\* URL.pathname: from the first '/' after the host, '/' when there is none.
Pathname(s) ==
    LET from == Len(StrHttps) + 1
        slashes == {i \in from..Len(s) : s[i] = "/"}
    IN IF slashes = {} THEN <<"/">>
       ELSE SubSeq(s, CHOOSE i \in slashes : \A j \in slashes : i <= j, Len(s))

\* URL.href: the URL, with the root path added when it has no path.
Href(s) ==
    IF \E i \in (Len(StrHttps) + 1)..Len(s) : s[i] = "/" THEN s ELSE s \o <<"/">>

\* pathname.split('/').slice(1).at(-1) || '' : what follows the last '/'.
Filename(pathname) ==
    LET slashes == {i \in 1..Len(pathname) : pathname[i] = "/"}
        last == CHOOSE i \in slashes : \A j \in slashes : j <= i
    IN SubSeq(pathname, last + 1, Len(pathname))

\* ------------------------------------------------------------ inputs drawn

Platforms == {StrLinux, StrWin32, StrDarwin, StrFreebsd}

Archs == {StrX64, StrArm64}

VersionInputs == {StrEmpty, StrStableCap, Str142, Str1d4d2, Str999}

ExecuteInputs == {StrTrue, StrOne, StrEmpty, StrYes}

\* The inputs named 'true' and 'false': both unset, or set to their names.
LiteralInputs == {<<StrEmpty, StrEmpty>>, <<StrTrue, StrFalse>>}

Envs ==
    {[n \in InputNames |->
        IF n = "version" THEN v
        ELSE IF n = "execute" THEN x
        ELSE IF n = "true" THEN tf[1]
        ELSE tf[2]] :
        v \in VersionInputs, x \in ExecuteInputs, tf \in LiteralInputs}

KeyLinux == FilesKey(StrLinux, StrX64)
KeyWin == FilesKey(StrWin, StrX64)
KeyOsx == FilesKey(StrOsx, StrX64)

\* Release entries the metadata document is made of.
EntryStable ==
    [isNull |-> FALSE, buildId |-> Str142, version |-> StrStable,
     files |-> [k \in {KeyLinux, KeyWin, KeyOsx} |->
                  [url |-> IF k = KeyLinux THEN UrlLinux
                           ELSE IF k = KeyWin THEN UrlWin ELSE UrlOsx]]]

EntryDashed ==
    [isNull |-> FALSE, buildId |-> Str999, version |-> Str1d4d2,
     files |-> [k \in {KeyWin} |-> [url |-> UrlWin]]]

EntryDotted ==
    [isNull |-> FALSE, buildId |-> Str999, version |-> Str142,
     files |-> [k \in {KeyLinux, KeyWin, KeyOsx} |->
                  [url |-> IF k = KeyLinux THEN UrlSlash
                           ELSE IF k = KeyWin THEN UrlBad ELSE UrlOsx]]]

EntryNull ==
    [isNull |-> TRUE, buildId |-> StrEmpty, version |-> StrEmpty,
     files |-> [k \in {} |-> [url |-> StrEmpty]]]

Catalog == {EntryStable, EntryDashed, EntryDotted, EntryNull}

\* The sequences of at most n different elements of S.
RECURSIVE SeqsUpTo(_, _)
SeqsUpTo(S, n) ==
    IF n = 0 THEN {<<>>}
    ELSE LET shorter == SeqsUpTo(S, n - 1) IN
         shorter \cup UNION {{Append(q, x) :
                                   x \in {y \in S : \A i \in 1..Len(q) : q[i] # y}} :
                                q \in shorter}

\* What response.json() can yield: an array of entries, or another value.
Bodies ==
    {[isArray |-> TRUE, entries |-> d] : d \in SeqsUpTo(Catalog, MaxDoc)}
        \cup {[isArray |-> FALSE, entries |-> <<>>]}

LsbOutputs == {StrJammyNl, StrFocalNl}

\* A thrown value: an Error instance or any other value.
Thrown(at, isError) == [at |-> at, isError |-> isError]

\* ------------------------------------------------------------ filesystem

\* chmodSync's mode argument, 0o755.
Mode0755 == 493

\* Mode of a file toolCache.downloadTool writes (0o666 under umask 022).
ModeFile == 420

\* Mode of a directory io.mkdirP makes (0o777 under umask 022).
ModeDir == 493

Node(p, kind, mode) == [path |-> p, kind |-> kind, mode |-> mode]

Exists(files, p) == \E n \in files : n.path = p

IsDirectory(files, p) == \E n \in files : n.path = p /\ n.kind = "dir"

NodeAt(files, p) == CHOOSE n \in files : n.path = p

\* path.basename: what follows the last separator.
Basename(p) ==
    LET seps == {i \in 1..Len(p) : p[i] \in {"/", "\\"}} IN
    IF seps = {} THEN p
    ELSE SubSeq(p, (CHOOSE i \in seps : \A j \in seps : j <= i) + 1, Len(p))

IsPrefix(a, b) == Len(a) <= Len(b) /\ SubSeq(b, 1, Len(a)) = a

\* io.mkdirP(p): the directory, kept when it is already there.
MkdirP(files, p) ==
    IF Exists(files, p) THEN files ELSE files \cup {Node(p, "dir", ModeDir)}

\* io.cp(source, dest, {recursive, force}) of a file: into dest when dest
\* is a directory, onto dest otherwise; the copy has the source's mode.
CpTarget(plat, files, source, dest) ==
    IF IsDirectory(files, dest) THEN PathJoin(plat, dest, Basename(source)) ELSE dest

Cp(plat, files, source, dest) ==
    LET target == CpTarget(plat, files, source, dest) IN
    {n \in files : n.path # target}
        \cup {Node(target, "file", NodeAt(files, source).mode)}

\* chmodSync(p, mode)
Chmod(files, p, mode) ==
    {IF n.path = p THEN [n EXCEPT !.mode = mode] ELSE n : n \in files}

\* Mutant of RmRF: the delete empties the disk.
RmRFEverything(files, p) == {n \in files : IsPrefix(p, n.path)} \ files

\* io.rmRF(p): p and everything under it.
RmRF(files, p) == {n \in files : ~IsPrefix(p, n.path)}

\* ------------------------------------------------------------ state

VARIABLES
    platform,                 \* process.platform
    arch,                     \* process.arch
    env,                      \* the action's inputs (INPUT_* variables)
    pc,                       \* where main() or Install() stands
    inputs,                   \* main's sourceInputs
    remoteVersionDefinitions, \* getReleaseMetadata's parsed body
    releaseMetadata,          \* Install's releaseMetadata: None or Some(entry)
    versionMarker,
    pathToInstall,
    cacheKey, lsbRelease,
    restoredFromCache,
    downloadUrlHref,          \* None or Some(href)
    filename,
    downloadPath,
    fs,                       \* the files and directories on disk
    failed,                   \* core.setFailed was called (process.exitCode = 1)
    messages,                 \* core.warning and core.setFailed messages, in order
    path,                     \* core.addPath calls, in order
    thrown,                   \* the value main's catch receives: None or Some
    result,                   \* Install's return value: None or Some
    cacheCalls,               \* cache.restoreCache and cache.saveCache calls
    downloadCalls,            \* toolCache.downloadTool calls
    log                       \* the steps taken with their outcomes, in order

procVars == <<platform, arch, env>>

localVars == <<releaseMetadata, versionMarker, pathToInstall, cacheKey, lsbRelease,
               restoredFromCache, downloadUrlHref, filename, downloadPath>>

coreVars == <<failed, messages, path>>

vars == <<platform, arch, env, pc, inputs, remoteVersionDefinitions,
          releaseMetadata, versionMarker, pathToInstall, cacheKey, lsbRelease,
          restoredFromCache, downloadUrlHref, filename, downloadPath, fs,
          failed, messages, path, thrown, result, cacheCalls, downloadCalls, log>>

Init ==
    /\ platform \in Platforms
    /\ arch \in Archs
    /\ env \in Envs
    /\ pc = "getInputs"
    /\ inputs = [version |-> StrEmpty, execute |-> FALSE]
    /\ remoteVersionDefinitions = [isArray |-> FALSE, entries |-> <<>>]
    /\ releaseMetadata = None
    /\ versionMarker = StrEmpty
    /\ pathToInstall = StrEmpty
    /\ cacheKey = StrEmpty
    /\ lsbRelease = StrEmpty
    /\ restoredFromCache = FALSE
    /\ downloadUrlHref = None
    /\ filename = StrEmpty
    /\ downloadPath = StrEmpty
    /\ fs = {}
    /\ failed = FALSE
    /\ messages = <<>>
    /\ path = <<>>
    /\ thrown = None
    /\ result = None
    /\ cacheCalls = <<>>
    /\ downloadCalls = <<>>
    /\ log = <<>>

\* ------------------------------------------------------------ effects

\* core.setFailed(message): process.exitCode = 1 and an error message.
SetFailed(text) ==
    /\ failed' = TRUE
    /\ messages' = Append(messages, [level |-> "error", text |-> text])

\* core.warning(message)
Warning(text) ==
    /\ messages' = Append(messages, [level |-> "warning", text |-> text])
    /\ UNCHANGED failed

\* error instanceof Error
InstanceofError(v) == v.isError

\* A value thrown out of Install, Execute or getInputs lands in main's catch.
Throw(at, isError) ==
    /\ pc' = "catch"
    /\ thrown' = Some(Thrown(at, isError))

\* process.exit(): the process ends with process.exitCode.
ProcessExit == pc' = "exited"

Log(op, out) == log' = Append(log, [op |-> op, out |-> out])

Outcome(isError) == IF isError THEN "threw Error" ELSE "threw value"

\* ------------------------------------------------------------ main, getInputs

\* main line 10: getInputs(); core.getBooleanInput's TypeError propagates.
GetInputs ==
    /\ pc = "getInputs"
    /\ LET r == GetBooleanInput(env, "execute") IN
       IF r.threw
       THEN /\ Throw("getBooleanInput", TRUE)
            /\ Log("getInputs", Outcome(TRUE))
            /\ UNCHANGED inputs
       ELSE /\ inputs' = [version |-> InputVersion(env), execute |-> r.value]
            /\ pc' = "getReleaseMetadata"
            /\ Log("getInputs", "ok")
            /\ UNCHANGED thrown
    /\ UNCHANGED <<procVars, downloadCalls, remoteVersionDefinitions, localVars, fs, coreVars,
                   result, cacheCalls>>

\* ------------------------------------------------------------ Install

\* getReleaseMetadata: fetch or response.json() may throw; a body that is
\* no non-empty array fails the run and exits; else the entry is looked up.
GetReleaseMetadata ==
    /\ pc = "getReleaseMetadata"
    /\ \/ \E isError \in BOOLEAN, at \in {"fetch", "response.json"} :
            /\ Throw(at, isError)
            /\ Log("getReleaseMetadata", Outcome(isError))
            /\ UNCHANGED <<remoteVersionDefinitions, releaseMetadata, coreVars>>
       \/ \E body \in Bodies :
            /\ remoteVersionDefinitions' = body
            /\ IF body.isArray /\ Len(body.entries) > 0
               THEN /\ releaseMetadata' = SelectRelease(body.entries, inputs.version)
                    /\ pc' = "versionMarker"
                    /\ Log("getReleaseMetadata", SelectField(inputs.version))
                    /\ UNCHANGED coreVars
               ELSE /\ SetFailed("Could not fetch release metadata")
                    /\ ProcessExit
                    /\ Log("getReleaseMetadata", "exit")
                    /\ UNCHANGED <<releaseMetadata, path>>
            /\ UNCHANGED thrown
    /\ UNCHANGED <<procVars, downloadCalls, inputs, versionMarker, pathToInstall, cacheKey, lsbRelease,
                   restoredFromCache, downloadUrlHref, filename, downloadPath,
                   fs, result, cacheCalls>>

\* Install lines 24-27: reading buildId of undefined is a TypeError.
InstallVersionMarker ==
    /\ pc = "versionMarker"
    /\ IF releaseMetadata = None
       THEN /\ Throw("releaseMetadata.buildId", TRUE)
            /\ Log("versionMarker", Outcome(TRUE))
            /\ UNCHANGED <<versionMarker, pathToInstall>>
       ELSE /\ versionMarker' = VersionMarker(releaseMetadata[1])
            /\ pathToInstall' = PathToInstall(platform, versionMarker')
            /\ pc' = "getCacheKey"
            /\ Log("versionMarker", "ok")
            /\ UNCHANGED thrown
    /\ UNCHANGED <<procVars, downloadCalls, inputs, remoteVersionDefinitions, releaseMetadata,
                   cacheKey, lsbRelease, restoredFromCache, downloadUrlHref, filename,
                   downloadPath, fs, coreVars, result, cacheCalls>>

\* getCacheKey: on linux lsb_release -cs runs first and may throw.
GetCacheKey ==
    /\ pc = "getCacheKey"
    /\ \/ /\ platform = StrLinux
          /\ \E isError \in BOOLEAN :
                /\ Throw("lsb_release", isError)
                /\ Log("getCacheKey", Outcome(isError))
          /\ UNCHANGED <<cacheKey, lsbRelease>>
       \/ /\ \E stdout \in (IF platform = StrLinux THEN LsbOutputs ELSE {StrEmpty}) :
                lsbRelease' = Trim(stdout)
          /\ cacheKey' = CacheKey(TOOL_NAME, versionMarker, platform, arch,
                                  lsbRelease')
          /\ pc' = "tryRestoreFromCache"
          /\ Log("getCacheKey", "ok")
          /\ UNCHANGED thrown
    /\ UNCHANGED <<procVars, downloadCalls, inputs, remoteVersionDefinitions, releaseMetadata,
                   versionMarker, pathToInstall, restoredFromCache,
                   downloadUrlHref, filename, downloadPath, fs, coreVars, result,
                   cacheCalls>>

CacheCall(op, paths, key) == [op |-> op, paths |-> paths, key |-> key]

\* What a cache hit puts under the install path: the directory and the tool.
RestoredFiles(plat, dir) ==
    {Node(dir, "dir", ModeDir), Node(PathJoin(plat, dir, StrSwa), "file", Mode0755)}

\* Mutant of IsCacheHit: the test of line 111 inverted.
IsCacheHitInverted(cacheHitKey) == cacheHitKey = None

\* tryRestoreFromCache lines 111-112: a defined cacheHitKey is a hit.
IsCacheHit(cacheHitKey) == cacheHitKey # None

\* tryRestoreFromCache lines 117-119: the catch warns an Error's message and
\* lets nothing out.
RestoreCatch(error) ==
    /\ IF InstanceofError(error)
       THEN Warning(error.at)
       ELSE UNCHANGED <<failed, messages>>
    /\ UNCHANGED thrown

\* tryRestoreFromCache: cache.restoreCache returns the key hit, undefined on
\* a miss, or throws; a throw is caught and an Error's message warned.
TryRestoreFromCache ==
    /\ pc = "tryRestoreFromCache"
    /\ \/ \E cacheHitKey \in {None, Some(cacheKey)} :
            /\ fs' = IF cacheHitKey # None
                     THEN fs \cup RestoredFiles(platform, pathToInstall)
                     ELSE fs
            /\ Log("tryRestoreFromCache", IF cacheHitKey # None THEN "hit" ELSE "miss")
            /\ restoredFromCache' = IsCacheHit(cacheHitKey)
            /\ IF IsCacheHit(cacheHitKey)
               THEN UNCHANGED <<failed, messages>>
               ELSE Warning("Cache not found")
            /\ UNCHANGED thrown
       \/ \E isError \in BOOLEAN :
            /\ restoredFromCache' = FALSE
            /\ RestoreCatch(Thrown("restoreCache", isError))
            /\ Log("tryRestoreFromCache", Outcome(isError))
            /\ UNCHANGED fs
    /\ cacheCalls' = Append(cacheCalls, CacheCall("restoreCache", <<pathToInstall>>, cacheKey))
    /\ pc' = IF restoredFromCache' = FALSE THEN "getDownloadUrl" ELSE "addPath"
    /\ UNCHANGED <<procVars, downloadCalls, inputs, remoteVersionDefinitions, releaseMetadata,
                   versionMarker, pathToInstall, cacheKey, lsbRelease, downloadUrlHref,
                   filename, downloadPath, path, result>>

\* Mutant of LookupFile: a key that is absent yields the linux descriptor.
LookupFileOrDefault(files, key) ==
    IF key \in DOMAIN files THEN Some(files[key]) ELSE Some([url |-> UrlLinux])

\* getDownloadUrl line 144, releaseMetadata.files[key]: the descriptor, or
\* undefined when the key is absent.
LookupFile(files, key) ==
    IF key \in DOMAIN files THEN Some(files[key]) ELSE None

\* getDownloadUrl, and Install line 35: the architecture and platform gates
\* fail the run and exit; a files entry that is missing, or a url that is
\* not one, is a TypeError.
GetDownloadUrl ==
    /\ pc = "getDownloadUrl"
    /\ IF ~SupportedArch(arch)
       THEN /\ SetFailed("Unsupported architecture")
            /\ ProcessExit
            /\ Log("getDownloadUrl", "exit")
            /\ UNCHANGED <<downloadUrlHref, filename, thrown>>
       ELSE IF MapPlatform(platform) = None
       THEN /\ SetFailed("Unsupported platform")
            /\ ProcessExit
            /\ Log("getDownloadUrl", "exit")
            /\ UNCHANGED <<downloadUrlHref, filename, thrown>>
       ELSE LET key == FilesKey(MapPlatform(platform)[1], arch)
                files == releaseMetadata[1].files
            IN IF LookupFile(files, key) = None
               THEN /\ Throw("files[key].url", TRUE)
                    /\ Log("getDownloadUrl", Outcome(TRUE))
                    /\ UNCHANGED <<downloadUrlHref, filename, failed, messages>>
               ELSE IF ~IsValidUrl(LookupFile(files, key)[1].url)
               THEN /\ Throw("new URL", TRUE)
                    /\ Log("getDownloadUrl", Outcome(TRUE))
                    /\ UNCHANGED <<downloadUrlHref, filename, failed, messages>>
               ELSE /\ downloadUrlHref' = Some(Href(LookupFile(files, key)[1].url))
                    /\ filename' = Filename(Pathname(LookupFile(files, key)[1].url))
                    /\ pc' = "downloadTool"
                    /\ Log("getDownloadUrl", "ok")
                    /\ UNCHANGED <<thrown, failed, messages>>
    /\ UNCHANGED <<procVars, downloadCalls, inputs, remoteVersionDefinitions, releaseMetadata,
                   versionMarker, pathToInstall, cacheKey, lsbRelease, restoredFromCache,
                   downloadPath, fs, path, result, cacheCalls>>

\* The uuid() directory of this run's download.
Uuid == <<"u">>

\* toolCache.downloadTool(url, dest), line 84
DownloadCall(url, dest) == [url |-> url, dest |-> dest]

\* downloadTool: toolCache.downloadTool writes the file; a throw is caught,
\* fails the run when it is an Error, and the process exits.
DownloadTool ==
    /\ pc = "downloadTool"
    /\ downloadCalls' = Append(downloadCalls,
          DownloadCall(downloadUrlHref[1],
                       PathJoin(platform, PathJoin(platform, TEMP_DIRECTORY, Uuid), filename)))
    /\ \/ /\ downloadPath' =
                PathJoin(platform, PathJoin(platform, TEMP_DIRECTORY, Uuid), filename)
          /\ fs' = fs \cup {Node(downloadPath', "file", ModeFile)}
          /\ pc' = "mkdirP"
          /\ Log("downloadTool", "ok")
          /\ UNCHANGED <<failed, messages>>
       \/ \E isError \in BOOLEAN :
            /\ IF InstanceofError(Thrown("downloadTool", isError))
               THEN SetFailed("Could not download")
               ELSE UNCHANGED <<failed, messages>>
            /\ ProcessExit
            /\ Log("downloadTool", Outcome(isError))
            /\ UNCHANGED <<downloadPath, fs>>
    /\ UNCHANGED <<procVars, inputs, remoteVersionDefinitions, releaseMetadata,
                   versionMarker, pathToInstall, cacheKey, lsbRelease, restoredFromCache,
                   downloadUrlHref, filename, path, thrown, result, cacheCalls>>

\* extractPackage line 73
DestinationPath == PathJoin(platform, pathToInstall, filename)

\* Mutant of FsStep: extractPackage goes from its first calls straight to
\* the delete of the download.
FsStepOutOfOrder(at, next, after) ==
    /\ pc = at
    /\ \/ /\ fs' = after
          /\ pc' = IF at = "rmRF" THEN next ELSE "rmRF"
          /\ Log(at, "ok")
          /\ UNCHANGED thrown
       \/ \E isError \in BOOLEAN :
            /\ Throw(at, isError)
            /\ Log(at, Outcome(isError))
            /\ UNCHANGED fs
    /\ UNCHANGED <<procVars, downloadCalls, inputs, remoteVersionDefinitions, localVars,
                   coreVars, result, cacheCalls>>

\* One filesystem call of extractPackage: it changes the disk and goes on,
\* or it throws and the value leaves extractPackage and Install.
FsStep(at, next, after) ==
    /\ pc = at
    /\ \/ /\ fs' = after
          /\ pc' = next
          /\ Log(at, "ok")
          /\ UNCHANGED thrown
       \/ \E isError \in BOOLEAN :
            /\ Throw(at, isError)
            /\ Log(at, Outcome(isError))
            /\ UNCHANGED fs
    /\ UNCHANGED <<procVars, downloadCalls, inputs, remoteVersionDefinitions, localVars,
                   coreVars, result, cacheCalls>>

\* extractPackage line 74
ExtractMkdirP == FsStep("mkdirP", "cp", MkdirP(fs, pathToInstall))

\* extractPackage line 75
ExtractCp == FsStep("cp", "chmodSync", Cp(platform, fs, downloadPath, DestinationPath))

\* extractPackage line 76
ExtractChmodSync == FsStep("chmodSync", "rmRF", Chmod(fs, DestinationPath, Mode0755))

\* extractPackage line 77
ExtractRmRF == FsStep("rmRF", "trySaveToCache", RmRF(fs, downloadPath))

\* Mutant of SaveCatch: the save error fails the run.
SaveCatchFails(error) ==
    /\ IF InstanceofError(error)
       THEN SetFailed(error.at)
       ELSE UNCHANGED <<failed, messages>>
    /\ UNCHANGED thrown

\* trySaveToCache lines 99-101: the catch warns an Error's message and lets
\* nothing out.
SaveCatch(error) ==
    /\ IF InstanceofError(error)
       THEN Warning(error.at)
       ELSE UNCHANGED <<failed, messages>>
    /\ UNCHANGED thrown

\* Mutant of SaveCacheCall: the save is made under the version marker.
SaveCacheCallOtherKey == CacheCall("saveCache", <<pathToInstall>>, versionMarker)

\* Install line 38 and trySaveToCache line 97: cache.saveCache([pathToInstall], cacheKey)
SaveCacheCall == CacheCall("saveCache", <<pathToInstall>>, cacheKey)

\* trySaveToCache: a throw of cache.saveCache is caught, an Error's message
\* warned, and Install goes on.
TrySaveToCache ==
    /\ pc = "trySaveToCache"
    /\ \/ /\ Log("trySaveToCache", "ok")
          /\ UNCHANGED <<failed, messages, thrown>>
       \/ \E isError \in BOOLEAN :
            /\ SaveCatch(Thrown("saveCache", isError))
            /\ Log("trySaveToCache", Outcome(isError))
    /\ cacheCalls' = Append(cacheCalls, SaveCacheCall)
    /\ pc' = "addPath"
    /\ UNCHANGED <<procVars, downloadCalls, inputs, remoteVersionDefinitions, localVars, fs,
                   path, result>>

\* Install line 41
AddPath ==
    /\ pc = "addPath"
    /\ path' = Append(path, ToPlatformPath(platform, pathToInstall))
    /\ pc' = "getToolVersion"
    /\ Log("addPath", "ok")
    /\ UNCHANGED <<procVars, downloadCalls, inputs, remoteVersionDefinitions, localVars, fs,
                   failed, messages, thrown, result, cacheCalls>>

\* Mutant of InstallResult: the result carries the URL of the release's
\* linux file whether or not a download was made.
InstallResultWithUrl ==
    [name |-> TOOL_NAME, version |-> releaseMetadata[1].version,
     path |-> pathToInstall, restoredFromCache |-> restoredFromCache,
     downloadUrl |-> Some(UrlLinux)]

\* Install line 45
InstallResult ==
    [name |-> TOOL_NAME, version |-> releaseMetadata[1].version,
     path |-> pathToInstall, restoredFromCache |-> restoredFromCache,
     downloadUrl |-> downloadUrlHref]

\* Install lines 42-45: the version query may throw; else Install returns.
GetToolVersion ==
    /\ pc = "getToolVersion"
    /\ \/ /\ result' = Some(InstallResult)
          /\ pc' = "execute"
          /\ Log("getToolVersion", "ok")
          /\ UNCHANGED thrown
       \/ \E isError \in BOOLEAN :
            /\ Throw("getToolVersion", isError)
            /\ Log("getToolVersion", Outcome(isError))
            /\ UNCHANGED result
    /\ UNCHANGED <<procVars, downloadCalls, inputs, remoteVersionDefinitions, localVars, fs,
                   coreVars, cacheCalls>>

\* ------------------------------------------------------------ main, Execute

\* Mutant of ShouldExecute: the tool is invoked whatever the flag.
ShouldExecuteAlways(sourceInputs) == sourceInputs.execute \in BOOLEAN

\* main line 12: sourceInputs.execute === true
ShouldExecute(sourceInputs) == sourceInputs.execute = TRUE

\* main lines 12-14: Execute(tool.name) when sourceInputs.execute is true.
MainExecute ==
    /\ pc = "execute"
    /\ IF ShouldExecute(inputs)
       THEN \/ /\ pc' = "done"
               /\ Log("Execute", "ok")
               /\ UNCHANGED thrown
            \/ \E isError \in BOOLEAN :
                 /\ Throw("Execute", isError)
                 /\ Log("Execute", Outcome(isError))
       ELSE /\ pc' = "done"
            /\ Log("main", "no execute")
            /\ UNCHANGED thrown
    /\ UNCHANGED <<procVars, downloadCalls, inputs, remoteVersionDefinitions, localVars, fs,
                   coreVars, result, cacheCalls>>

\* Mutant of MainHandler: the error is logged as a warning, the run not
\* failed.
MainHandlerWarns(error) ==
    IF InstanceofError(error)
    THEN Warning(error.at)
    ELSE UNCHANGED <<failed, messages>>

\* main line 16: an Error's message fails the run.
MainHandler(error) ==
    IF InstanceofError(error)
    THEN SetFailed(error.at)
    ELSE UNCHANGED <<failed, messages>>

\* main lines 15-17: the one catch.
MainCatch ==
    /\ pc = "catch"
    /\ MainHandler(thrown[1])
    /\ pc' = "done"
    /\ Log("catch", "ok")
    /\ UNCHANGED <<procVars, downloadCalls, inputs, remoteVersionDefinitions, localVars, fs,
                   path, thrown, result, cacheCalls>>

Next ==
    \/ GetInputs
    \/ GetReleaseMetadata
    \/ InstallVersionMarker
    \/ GetCacheKey
    \/ TryRestoreFromCache
    \/ GetDownloadUrl
    \/ DownloadTool
    \/ ExtractMkdirP
    \/ ExtractCp
    \/ ExtractChmodSync
    \/ ExtractRmRF
    \/ TrySaveToCache
    \/ AddPath
    \/ GetToolVersion
    \/ MainExecute
    \/ MainCatch

Spec == Init /\ [][Next]_vars

\* The process has ended: main's promise settled, or process.exit() ran.
Ended == pc \in {"done", "exited"}

\* ------------------------------------------------------------ history

Threw == {"threw Error", "threw value"}

\* The step op was taken.
Did(op) == \E i \in 1..Len(log) : log[i].op = op

\* The step op was taken with one of the outcomes outs.
DidWith(op, outs) == \E i \in 1..Len(log) : log[i].op = op /\ log[i].out \in outs

\* How many times the step op was taken.
Count(op) == Cardinality({i \in 1..Len(log) : log[i].op = op})

\* Every thrown value of the run was an Error.
OnlyErrorsThrown == \A i \in 1..Len(log) : log[i].out # "threw value"

\* core.setFailed was called with this message.
FailedWith(text) ==
    \E i \in 1..Len(messages) : messages[i] = [level |-> "error", text |-> text]

\* core.warning was called with this message.
WarnedWith(text) ==
    \E i \in 1..Len(messages) : messages[i] = [level |-> "warning", text |-> text]

\* A throw of cache.restoreCache failed the run: it reached main's catch,
\* or an error message carries it.
RestoreErrorFailedRun ==
    \/ thrown = Some(Thrown("restoreCache", TRUE))
    \/ thrown = Some(Thrown("restoreCache", FALSE))
    \/ FailedWith("restoreCache")
    \/ (pc = "getDownloadUrl" /\ failed)

\* ------------------------------------------------------------ C1

\* C1 (as claimed): in every run that reaches the cache restore step, a hit
\* means no download call and restoredFromCache = true; a miss or a throw
\* means restoredFromCache = false, a download call by the end of the run,
\* and no failure of the run from the cache error.
C1_Original ==
    Did("tryRestoreFromCache") =>
        /\ DidWith("tryRestoreFromCache", {"hit"}) =>
              ~Did("downloadTool") /\ restoredFromCache = TRUE
        /\ DidWith("tryRestoreFromCache", {"miss"} \cup Threw) =>
              /\ restoredFromCache = FALSE
              /\ Ended => Did("downloadTool")
              /\ ~RestoreErrorFailedRun

\* C1 (amended): in every run that reaches the cache restore step, a hit
\* means no download call and restoredFromCache = true; a miss or a throw
\* means restoredFromCache = false, the run goes on to getDownloadUrl, a
\* download call is made whenever getDownloadUrl returns a URL, and the
\* cache error never fails the run.
C1_RestoreDecidesDownload ==
    Did("tryRestoreFromCache") =>
        /\ DidWith("tryRestoreFromCache", {"hit"}) =>
              /\ ~Did("downloadTool")
              /\ ~Did("getDownloadUrl")
              /\ restoredFromCache = TRUE
        /\ DidWith("tryRestoreFromCache", {"miss"} \cup Threw) =>
              /\ restoredFromCache = FALSE
              /\ pc = "getDownloadUrl" \/ Did("getDownloadUrl")
              /\ (Ended /\ DidWith("getDownloadUrl", {"ok"})) => Did("downloadTool")
              /\ Did("downloadTool") => DidWith("getDownloadUrl", {"ok"})
              /\ ~RestoreErrorFailedRun

\* C1 witness: cache.restoreCache threw an Error, the artifact was then
\* downloaded, and the run ended without a failure.
C1_Witness ==
    /\ pc = "done"
    /\ DidWith("tryRestoreFromCache", {"threw Error"})
    /\ DidWith("downloadTool", {"ok"})
    /\ ~failed
    /\ result # None

\* ------------------------------------------------------------ C2

\* The run halted in getDownloadUrl with the unsupported-architecture
\* failure: marked failed, process exited, nothing installed or returned.
HaltedUnsupportedArch ==
    /\ pc = "exited"
    /\ failed
    /\ messages # <<>>
    /\ messages[Len(messages)] = [level |-> "error", text |-> "Unsupported architecture"]
    /\ result = None

\* C2 (as claimed), for the runs whose metadata request returned a body: a
\* run on an architecture other than x64 ends halted with the
\* unsupported-architecture failure, whatever the release content and the
\* cache restore outcome.
C2_Original ==
    (arch # StrX64 /\ Ended
        /\ DidWith("getReleaseMetadata", {"buildId", "version", "exit"})) =>
        HaltedUnsupportedArch /\ ~Did("downloadTool")

\* C2 (amended): on an architecture other than x64 no artifact download is
\* ever attempted, and a run that reaches getDownloadUrl (release resolved,
\* cache key derived, cache missed or restore threw) halts there with the
\* unsupported-architecture failure; a run that ends earlier, or restores
\* from the cache, never reaches that check.
C2_UnsupportedArchNeverDownloads ==
    arch # StrX64 =>
        /\ ~Did("downloadTool")
        /\ downloadUrlHref = None
        /\ Did("getDownloadUrl") => HaltedUnsupportedArch
        /\ HaltedUnsupportedArch =>
              DidWith("tryRestoreFromCache", {"miss"} \cup Threw)
        /\ result # None => DidWith("tryRestoreFromCache", {"hit"})

\* C2 witness: an arm64 run that missed the cache and halted in
\* getDownloadUrl.
C2_Witness ==
    /\ arch = StrArm64
    /\ DidWith("getDownloadUrl", {"exit"})
    /\ HaltedUnsupportedArch

\* ------------------------------------------------------------ C3

\* The build-identifier pattern as the specification gives it,
\* \d+\.\d+\.\d+ : digits, a dot, digits, a dot, digits.
IsDottedTriple(s) ==
    \E i \in 1..Len(s), k \in 1..Len(s) :
        /\ i + 2 <= k
        /\ k + 2 <= Len(s)
        /\ s[i] \in Digits
        /\ s[i + 1] = "."
        /\ \A j \in (i + 2)..k : s[j] \in Digits
        /\ s[k + 1] = "."
        /\ s[k + 2] \in Digits

\* getReleaseMetadata returned the entry it looked up in a non-empty array.
Resolved == DidWith("getReleaseMetadata", {"buildId", "version"})

\* C3 (as claimed): for every specifier and non-empty metadata document, a
\* specifier that is a numeric dotted triple is looked up by buildId and
\* never by version, and any other specifier by version and never by
\* buildId.
C3_SelectsByPattern ==
    Resolved =>
        LET field == IF IsDottedTriple(inputs.version) THEN "buildId" ELSE "version"
        IN /\ DidWith("getReleaseMetadata", {field})
           /\ releaseMetadata =
                 Find(remoteVersionDefinitions.entries, field, inputs.version)

\* ------------------------------------------------------------ C4

\* No entry of the document has the specifier in the field the lookup
\* compares.
NoEntryMatches ==
    \A i \in 1..Len(remoteVersionDefinitions.entries) :
        FieldOf(remoteVersionDefinitions.entries[i], SelectField(inputs.version))
            # Some(inputs.version)

\* C4: when no entry of the fetched document matches the specifier, no
\* entry stands in as a default, the run goes no further than the lookup
\* (no cache restore, download, PATH registration or tool invocation, no
\* result), and it ends marked failed.
C4_NoMatchIsHardFailure ==
    (Resolved /\ NoEntryMatches) =>
        /\ releaseMetadata = None
        /\ versionMarker = StrEmpty /\ pathToInstall = StrEmpty
        /\ pc \in {"versionMarker", "catch", "done"}
        /\ cacheCalls = <<>>
        /\ ~Did("tryRestoreFromCache") /\ ~Did("downloadTool")
        /\ ~Did("addPath") /\ path = <<>>
        /\ ~Did("getToolVersion") /\ ~Did("Execute")
        /\ result = None
        /\ Ended => (pc = "done" /\ failed /\ FailedWith("releaseMetadata.buildId"))

\* C4 witness: a run whose document held entries, none of them matching,
\* ended failed on reading the missing entry.
C4_Witness ==
    /\ Resolved /\ NoEntryMatches
    /\ Len(remoteVersionDefinitions.entries) = MaxDoc
    /\ pc = "done"
    /\ failed
    /\ thrown = Some(Thrown("releaseMetadata.buildId", TRUE))

\* ------------------------------------------------------------ C5

\* A fatal failure happened: the metadata request threw or gave no
\* non-empty array, no release matched, the architecture or platform is
\* unsupported, the download threw, or lsb_release threw.
FatalFailure ==
    \/ DidWith("getReleaseMetadata", Threw \cup {"exit"})
    \/ DidWith("versionMarker", Threw)
    \/ DidWith("getDownloadUrl", {"exit"})
    \/ DidWith("downloadTool", Threw)
    \/ DidWith("getCacheKey", Threw)

\* C5 (as claimed): after any fatal failure, whatever value the failing
\* call threw, the run ends marked failed and without an InstallResult.
C5_FatalFailureMarksFailed ==
    (Ended /\ FatalFailure) => (failed /\ result = None)

\* ------------------------------------------------------------ C6

\* The steps whose throw no try/catch inside the pipeline receives.
UncaughtSteps ==
    {"getInputs", "getReleaseMetadata", "versionMarker", "getCacheKey",
     "getDownloadUrl", "mkdirP", "cp", "chmodSync", "rmRF", "getToolVersion",
     "Execute"}

\* C6: main's catch is the one top-level handler.  Every value thrown in
\* getInputs, Install or Execute outside the pipeline's own try/catch
\* blocks is the last step before that handler, reaches it, and is handled
\* once; when it is an Error the run ends marked failed with its message.
\* main returns either through that handler or with Install's result and
\* the run not failed.
C6_UncaughtErrorsReachMain ==
    /\ \A i \in 1..Len(log) :
          (log[i].op \in UncaughtSteps /\ log[i].out \in Threw) =>
              /\ thrown # None
              /\ Outcome(thrown[1].isError) = log[i].out
              /\ pc \in {"catch", "done"}
              /\ \A j \in (i + 1)..Len(log) : j = i + 1 /\ log[j].op = "catch"
              /\ (pc = "done" /\ log[i].out = "threw Error") =>
                    /\ failed
                    /\ messages[Len(messages)] =
                          [level |-> "error", text |-> thrown[1].at]
    /\ Count("catch") <= 1
    /\ Did("catch") <=> (thrown # None /\ pc = "done")
    /\ (pc = "done" /\ thrown = None) => (~failed /\ result # None)

\* C6 witness: the optional invocation threw an Error after a completed
\* install, and main's catch marked the run failed.
C6_Witness ==
    /\ pc = "done"
    /\ DidWith("Execute", {"threw Error"})
    /\ result # None
    /\ failed
    /\ FailedWith("Execute")

\* ------------------------------------------------------------ C7

\* C7 (as claimed): getInputs yields execute = true when the 'execute'
\* input is one of 'true', 'True', 'TRUE', '1', and execute = false for
\* every other value, and raises no error in either case.
C7_ExecuteFlag ==
    Did("getInputs") =>
        /\ DidWith("getInputs", {"ok"})
        /\ inputs.execute = (CoreGetInput(env, "execute") \in TrueValue)

\* ------------------------------------------------------------ C8

\* C8 (as claimed), for the runs in which only Errors are thrown: once the
\* artifact is downloaded to its temporary location, the temporary download
\* is gone by the end of the run, whether or not mkdirP, cp and chmodSync
\* succeeded.
C8_TempDownloadDeleted ==
    (Ended /\ DidWith("downloadTool", {"ok"}) /\ OnlyErrorsThrown) =>
        ~Exists(fs, downloadPath)

\* ------------------------------------------------------------ C9

\* C9: a throw of the cache save after a fresh install never fails the
\* run: nothing of it reaches main's catch or an error message, an Error's
\* message is warned, the next step is the PATH registration, and the
\* result returned is that of a fresh install (restoredFromCache false,
\* downloadUrl the URL downloaded from).
C9_SaveFailureNeverFailsRun ==
    \A i \in 1..Len(log) :
        (log[i].op = "trySaveToCache" /\ log[i].out \in Threw) =>
            /\ log[i].out = "threw Error" => WarnedWith("saveCache")
            /\ ~FailedWith("saveCache")
            /\ thrown = None \/ thrown[1].at \in {"getToolVersion", "Execute"}
            /\ failed => (thrown # None /\ FailedWith(thrown[1].at))
            /\ pc \in {"addPath", "getToolVersion", "execute", "catch", "done"}
            /\ pc # "addPath" =>
                  /\ log[i + 1] = [op |-> "addPath", out |-> "ok"]
                  /\ path = <<ToPlatformPath(platform, pathToInstall)>>
            /\ result # None =>
                  /\ downloadUrlHref # None
                  /\ result[1] = [name |-> TOOL_NAME,
                                  version |-> releaseMetadata[1].version,
                                  path |-> pathToInstall,
                                  restoredFromCache |-> FALSE,
                                  downloadUrl |-> downloadUrlHref]

\* C9 witness: cache.saveCache threw an Error and the run still ended with
\* its result, not failed.
C9_Witness ==
    /\ pc = "done"
    /\ DidWith("trySaveToCache", {"threw Error"})
    /\ WarnedWith("saveCache")
    /\ ~failed
    /\ result # None
    /\ result[1].restoredFromCache = FALSE

\* ------------------------------------------------------------ C10

\* Strings joined with dashes.
RECURSIVE JoinDash(_)
JoinDash(parts) ==
    IF Len(parts) = 1 THEN parts[1]
    ELSE parts[1] \o Dash \o JoinDash(Tail(parts))

\* The inputs of a key derivation other runs and machines may have.
KeyInputs ==
    [tool : {TOOL_NAME, StrSwa},
     version : {VersionMarker(e) : e \in Catalog \ {EntryNull}},
     platform : Platforms,
     arch : Archs,
     codename : {Trim(o) : o \in LsbOutputs}]

\* The inputs of this run's key derivation.
ThisKeyInput ==
    [tool |-> TOOL_NAME, version |-> versionMarker, platform |-> platform,
     arch |-> arch, codename |-> lsbRelease]

\* The codename is an input on linux only.
SameCodename(x, y) ==
    (x.platform = StrLinux /\ y.platform = StrLinux) => x.codename = y.codename

\* x and y differ in exactly one input.
DifferInOne(x, y) ==
    Cardinality({f \in {"tool", "version", "platform", "arch"} : x[f] # y[f]}
                    \cup (IF SameCodename(x, y) THEN {} ELSE {"codename"})) = 1

SameInputs(x, y) ==
    /\ \A f \in {"tool", "version", "platform", "arch"} : x[f] = y[f]
    /\ SameCodename(x, y)

KeyOf(x) == CacheKey(x.tool, x.version, x.platform, x.arch, x.codename)

\* C10: the cache key getCacheKey returns is
\* tool-versionMarker-os-arch-cache, with -codename before -cache on linux;
\* any derivation from the same inputs yields the same key, and any
\* derivation from inputs differing in exactly one of them yields a
\* different key.
C10_CacheKeyDeterministic ==
    pc = "tryRestoreFromCache" =>
        /\ cacheKey =
              IF platform = StrLinux
              THEN JoinDash(<<TOOL_NAME, versionMarker, platform, arch,
                              lsbRelease, StrCache>>)
              ELSE JoinDash(<<TOOL_NAME, versionMarker, platform, arch, StrCache>>)
        /\ \A x \in KeyInputs :
              /\ SameInputs(x, ThisKeyInput) => KeyOf(x) = cacheKey
              /\ DifferInOne(x, ThisKeyInput) => KeyOf(x) # cacheKey

\* C10 witness: a linux run derived its key with the codename in it, and
\* another key derivation differs from it in the codename alone.
C10_Witness ==
    /\ pc = "tryRestoreFromCache"
    /\ platform = StrLinux
    /\ lsbRelease = Trim(StrJammyNl)
    /\ \E x \in KeyInputs :
          /\ DifferInOne(x, ThisKeyInput)
          /\ x.codename # lsbRelease
          /\ KeyOf(x) # cacheKey

\* ------------------------------------------------------------ C11

\* C11: whenever Install has returned its result, downloadUrl is set
\* exactly when toolCache.downloadTool was called in the run; after a cache
\* hit the result has downloadUrl undefined and restoredFromCache true, and
\* after a download it has downloadUrl equal to the URL of that one
\* download call and restoredFromCache false.
C11_DownloadUrlIffDownloaded ==
    result # None =>
        /\ (result[1].downloadUrl # None) <=> (downloadCalls # <<>>)
        /\ DidWith("tryRestoreFromCache", {"hit"}) =>
              /\ result[1].downloadUrl = None
              /\ result[1].restoredFromCache = TRUE
              /\ downloadCalls = <<>>
        /\ downloadCalls # <<>> =>
              /\ Len(downloadCalls) = 1
              /\ DidWith("downloadTool", {"ok"})
              /\ result[1].downloadUrl = Some(downloadCalls[1].url)
              /\ result[1].restoredFromCache = FALSE

\* C11 witness: Install returned after a cache hit, with no download made
\* and downloadUrl undefined.
C11_Witness ==
    /\ result # None
    /\ DidWith("tryRestoreFromCache", {"hit"})
    /\ downloadCalls = <<>>
    /\ result[1].downloadUrl = None
    /\ result[1].restoredFromCache = TRUE

\* ------------------------------------------------------------ C12

\* A fresh install completed: the artifact was downloaded and
\* extractPackage ran to its end.
FreshInstallDone == DidWith("downloadTool", {"ok"}) /\ DidWith("rmRF", {"ok"})

\* The file in the install directory under the artifact's file name.
InstalledArtifact ==
    {n \in fs : n.kind = "file"
                /\ n.path = PathJoin(platform, pathToInstall, filename)}

\* C12 (as claimed): after every completed fresh install, from the PATH
\* registration on, the install directory holds the artifact as a file
\* under its original file name, with mode 0755.
C12_ArtifactExecutable ==
    (FreshInstallDone /\ Did("addPath")) =>
        /\ InstalledArtifact # {}
        /\ \A n \in InstalledArtifact : n.mode = Mode0755

\* ------------------------------------------------------------ C13

\* The key the platform and architecture map to is not in the files of the
\* selected release entry.
MappedKeyAbsent ==
    /\ releaseMetadata # None
    /\ MapPlatform(platform) # None
    /\ FilesKey(MapPlatform(platform)[1], arch) \notin DOMAIN releaseMetadata[1].files

\* C13: when the mapped key is absent from the files of the selected entry,
\* no download is ever attempted and no URL is produced; the run that looks
\* the key up stops there, without a result, and ends marked failed, with
\* the lookup's error (or, before it, the unsupported-architecture failure)
\* reported.
C13_AbsentKeySurfaced ==
    MappedKeyAbsent =>
        /\ downloadCalls = <<>>
        /\ ~Did("downloadTool")
        /\ downloadUrlHref = None
        /\ Did("getDownloadUrl") =>
              /\ result = None
              /\ ~Did("addPath")
              /\ pc \in {"catch", "done", "exited"}
              /\ Ended => failed
              /\ SupportedArch(arch) =>
                    /\ thrown = Some(Thrown("files[key].url", TRUE))
                    /\ pc = "done" => FailedWith("files[key].url")

\* C13 witness: an x64 run looked up a key the entry does not have and ended
\* marked failed with the lookup's error.
C13_Witness ==
    /\ MappedKeyAbsent
    /\ arch = StrX64
    /\ DidWith("getDownloadUrl", {"threw Error"})
    /\ pc = "done"
    /\ failed
    /\ FailedWith("files[key].url")

\* ------------------------------------------------------------ C14

\* The pipeline step a logged operation belongs to, in the order claimed:
\* 1 resolve, 2 map, 3 key, 4 restore-or-install, 5 PATH registration,
\* 6 invocation; 0 for what is no step of the pipeline.
ClaimedStep(op) ==
    IF op \in {"getReleaseMetadata", "versionMarker"} THEN 1
    ELSE IF op = "getDownloadUrl" THEN 2
    ELSE IF op = "getCacheKey" THEN 3
    ELSE IF op \in {"tryRestoreFromCache", "downloadTool", "mkdirP", "cp",
                    "chmodSync", "rmRF", "trySaveToCache"} THEN 4
    ELSE IF op = "addPath" THEN 5
    ELSE IF op = "Execute" THEN 6
    ELSE 0

\* C14 (as claimed), for the runs in which only Errors are thrown: the
\* steps happen in the order resolve, map, key, restore-or-install, PATH
\* registration, invocation, and no operation happens twice.
C14_Original ==
    OnlyErrorsThrown =>
        \A i, j \in 1..Len(log) :
            (i < j /\ ClaimedStep(log[i].op) > 0 /\ ClaimedStep(log[j].op) > 0) =>
                /\ ClaimedStep(log[i].op) <= ClaimedStep(log[j].op)
                /\ log[i].op # log[j].op

\* The operation that follows a completed operation, "" when the run ends
\* with it.
StepAfter(step) ==
    IF step.out \in Threw
    THEN IF step.op \in {"tryRestoreFromCache", "trySaveToCache"}
         THEN (IF step.op = "tryRestoreFromCache" THEN "getDownloadUrl" ELSE "addPath")
         ELSE IF step.op = "downloadTool" THEN ""
         ELSE "catch"
    ELSE IF step.out = "exit" THEN ""
    ELSE IF step.op = "getInputs" THEN "getReleaseMetadata"
    ELSE IF step.op = "getReleaseMetadata" THEN "versionMarker"
    ELSE IF step.op = "versionMarker" THEN "getCacheKey"
    ELSE IF step.op = "getCacheKey" THEN "tryRestoreFromCache"
    ELSE IF step.op = "tryRestoreFromCache"
         THEN (IF step.out = "hit" THEN "addPath" ELSE "getDownloadUrl")
    ELSE IF step.op = "getDownloadUrl" THEN "downloadTool"
    ELSE IF step.op = "downloadTool" THEN "mkdirP"
    ELSE IF step.op = "mkdirP" THEN "cp"
    ELSE IF step.op = "cp" THEN "chmodSync"
    ELSE IF step.op = "chmodSync" THEN "rmRF"
    ELSE IF step.op = "rmRF" THEN "trySaveToCache"
    ELSE IF step.op = "trySaveToCache" THEN "addPath"
    ELSE IF step.op = "addPath" THEN "getToolVersion"
    ELSE IF step.op = "getToolVersion"
         THEN (IF inputs.execute = TRUE THEN "Execute" ELSE "main")
    ELSE ""

\* C14 (amended): in every run the steps happen strictly in the order
\* resolve release, derive cache key, cache restore, then on a miss map
\* platform and architecture, download, extract (mkdirP, cp, chmodSync,
\* rmRF) and cache save, then PATH registration, version query and the
\* optional invocation; each operation begins only when the one before it
\* has completed, and none happens more than once.
C14_StrictOrder ==
    /\ log # <<>> => log[1].op = "getInputs"
    /\ \A i \in 1..(Len(log) - 1) : log[i + 1].op = StepAfter(log[i])
    /\ \A i, j \in 1..Len(log) : log[i].op = log[j].op => i = j
    /\ \A i, j \in 1..Len(log) :
          (log[i].op = "getCacheKey" /\ log[j].op = "getDownloadUrl") => i < j

\* C14 witness: a run that went through every step of a fresh install and
\* the invocation, the platform mapped after the key was derived.
C14_Witness ==
    /\ pc = "done"
    /\ Len(log) = 15
    /\ log[4].op = "getCacheKey"
    /\ log[6] = [op |-> "getDownloadUrl", out |-> "ok"]
    /\ log[13].op = "addPath"
    /\ log[15] = [op |-> "Execute", out |-> "ok"]

\* ------------------------------------------------------------ C15

\* Install completed: the install directory holds a file, the path is
\* registered, the version query succeeded and the result was returned.
InstallCompleted ==
    /\ result # None
    /\ \E n \in fs : /\ n.kind = "file"
                     /\ n.path # pathToInstall
                     /\ IsPrefix(pathToInstall, n.path)
    /\ path = <<ToPlatformPath(platform, pathToInstall)>>
    /\ DidWith("getToolVersion", {"ok"})

\* Install failed or terminated the process: it threw to main's catch, or
\* it called process.exit().
InstallFailed ==
    \/ pc = "exited"
    \/ thrown # None /\ thrown[1].at # "Execute"

\* C15: Execute is called at most once per run, only when
\* sourceInputs.execute is true, and only right after Install has completed
\* (install directory populated, path registered, version query succeeded,
\* result returned); it is never called in a run in which Install failed
\* or terminated the process.
C15_ExecuteOnlyAfterInstall ==
    /\ Count("Execute") <= 1
    /\ Did("Execute") =>
          /\ inputs.execute = TRUE
          /\ InstallCompleted
          /\ ~InstallFailed
          /\ \A i \in 1..Len(log) :
                log[i].op = "Execute" =>
                    i > 1 /\ log[i - 1] = [op |-> "getToolVersion", out |-> "ok"]
    /\ InstallFailed => ~Did("Execute")
    /\ (pc = "done" /\ inputs.execute = FALSE) => ~Did("Execute")

\* C15 witness: a run with execute true completed the install and then
\* invoked the tool, once.
C15_Witness ==
    /\ pc = "done"
    /\ inputs.execute = TRUE
    /\ InstallCompleted
    /\ Count("Execute") = 1
    /\ log[Len(log)] = [op |-> "Execute", out |-> "ok"]

\* ------------------------------------------------------------ C16

\* The positions of the calls of cache operation op.
CallsOf(op) == {i \in 1..Len(cacheCalls) : cacheCalls[i].op = op}

\* The download and every call of extractPackage completed.
ExtractionCompleted ==
    /\ DidWith("downloadTool", {"ok"})
    /\ DidWith("mkdirP", {"ok"}) /\ DidWith("cp", {"ok"})
    /\ DidWith("chmodSync", {"ok"}) /\ DidWith("rmRF", {"ok"})

\* The download or a call of extractPackage failed.
ExtractionFailed ==
    \E i \in 1..Len(log) :
        /\ log[i].op \in {"downloadTool", "mkdirP", "cp", "chmodSync", "rmRF"}
        /\ log[i].out \in Threw

\* C16: cache.saveCache is called at most once per run, only after a cache
\* miss or restore error followed by a completed download and extraction,
\* never after a cache hit and never after a failed download or
\* extraction; and it is called with exactly the key and the path of the
\* run's restore call.
C16_SaveOnceAfterFreshInstall ==
    /\ Cardinality(CallsOf("saveCache")) <= 1
    /\ Cardinality(CallsOf("saveCache")) = Count("trySaveToCache")
    /\ \A i \in CallsOf("saveCache") :
          /\ DidWith("tryRestoreFromCache", {"miss"} \cup Threw)
          /\ ExtractionCompleted
          /\ i = 2
          /\ cacheCalls[1].op = "restoreCache"
          /\ cacheCalls[i].key = cacheCalls[1].key
          /\ cacheCalls[i].paths = cacheCalls[1].paths
          /\ cacheCalls[i].key = cacheKey
          /\ cacheCalls[i].paths = <<pathToInstall>>
    /\ DidWith("tryRestoreFromCache", {"hit"}) => CallsOf("saveCache") = {}
    /\ ExtractionFailed => CallsOf("saveCache") = {}

\* C16 witness: after a cache miss, a completed download and extraction,
\* the save was made under the key and path of the restore.
C16_Witness ==
    /\ DidWith("tryRestoreFromCache", {"miss"})
    /\ ExtractionCompleted
    /\ Len(cacheCalls) = 2
    /\ cacheCalls[2].op = "saveCache"
    /\ cacheCalls[2].key = cacheCalls[1].key
    /\ cacheCalls[2].paths = cacheCalls[1].paths

\* ------------------------------------------------------------ C17

\* The install directory holds a file.
InstallDirPopulated ==
    \E n \in fs : /\ n.kind = "file"
                  /\ n.path # pathToInstall
                  /\ IsPrefix(pathToInstall, n.path)

\* The run ended on a fatal resolve, platform, download or extraction
\* failure.
FatalBeforeRegistration ==
    \/ DidWith("getReleaseMetadata", Threw \cup {"exit"})
    \/ DidWith("versionMarker", Threw)
    \/ DidWith("getCacheKey", Threw)
    \/ DidWith("getDownloadUrl", Threw \cup {"exit"})
    \/ ExtractionFailed

\* C17: core.addPath is called at most once per run, with the install
\* path, and only when the install directory has been populated in the run
\* by a cache hit or by a completed extraction; it is never called in a run
\* that ended on a fatal resolve, platform, download or extraction failure,
\* and it has been called when the version query or the invocation fails.
C17_PathRegisteredOnceAfterInstall ==
    /\ Len(path) = Count("addPath")
    /\ Len(path) <= 1
    /\ path # <<>> =>
          /\ path = <<ToPlatformPath(platform, pathToInstall)>>
          /\ InstallDirPopulated
          /\ \/ DidWith("tryRestoreFromCache", {"hit"})
             \/ ExtractionCompleted
    /\ FatalBeforeRegistration => path = <<>>
    /\ (DidWith("getToolVersion", Threw) \/ DidWith("Execute", Threw)) =>
          Len(path) = 1

\* C17 witness: the version query failed after a completed extraction, with
\* the install path already registered.
C17_Witness ==
    /\ DidWith("getToolVersion", {"threw Error"})
    /\ ExtractionCompleted
    /\ InstallDirPopulated
    /\ path = <<ToPlatformPath(platform, pathToInstall)>>
    /\ result = None

====
